---- MODULE Spec2Model ----
(***************************************************************************)
(* axscale (src/axscale.c): calibration of the absolute axes of an evdev   *)
(* joystick.  "detect" records the min/max of every axis sample until      *)
(* SIGINT and writes a mapping file; "load" parses a mapping file and       *)
(* applies it to the device.                                                *)
(*                                                                         *)
(* Number representation.  The C program mixes int (event.value, axis) and *)
(* unsigned int (axis_range.min/max), both 32 bits wide.  A 32-bit word is  *)
(* kept here as its two's-complement representative in -2^31 .. 2^31-1, so  *)
(* that the int <-> unsigned conversions of C keep the word unchanged and   *)
(* only the comparisons and the decimal conversions differ between the two  *)
(* types.  The unsigned value of a word w is w when w >= 0 and 2^32 + w     *)
(* otherwise.                                                               *)
(***************************************************************************)
EXTENDS Integers, Sequences, FiniteSets, TLC

VARIABLES
    pc,           \* control location of the process
    argv,         \* argv[1..] of the current invocation
    exitStatus,   \* -1 while running, else the status reported to the parent
    devAxes,      \* EV_ABS codes the device has (libevdev_has_event_code)
    devAbs,       \* the device's abs minimum/maximum per code
    mapFile,      \* characters of the mapping file
    axes_ranges,  \* axis_range axes_ranges[AXIS_COUNT] of detect / load
    sig,          \* SIGINT: [blocked, pending]
    event,        \* detect: the result of the last libevdev_next_event
    scan,         \* load: stream position, EOF indicator, the locals axis/min/max
    revents,      \* detect: POLLIN of fds[0] (device) and fds[1] (signalfd)
    log,          \* what was reported on stderr/stdout by this invocation
    hist          \* history: samples applied, where SIGINT arrived, runs so far

vars == <<pc, argv, exitStatus, devAxes, devAbs, mapFile, axes_ranges, sig,
          event, scan, revents, log, hist>>

----------------------------------------------------------------------------
(* Program constants *)

ABS_X == 0
ABS_RZ == 5
AXIS_A == ABS_X
AXIS_Z == ABS_RZ
AXIS_COUNT == (AXIS_Z - AXIS_A) + 1
USHRT_MAX == 65535
EV_ABS == 3
EOF == -1
INT_MIN == -2147483647 - 1

\* The table's index range: axes_ranges[0 .. AXIS_COUNT-1].
TableIdx == 0 .. (AXIS_COUNT - 1)

----------------------------------------------------------------------------
(* 32-bit words *)

\* (unsigned) a > (unsigned) b on 32-bit words.
UGt(a, b) ==
    IF (a >= 0) = (b >= 0) THEN a > b ELSE a < 0

\* (unsigned) a < (unsigned) b on 32-bit words.
ULt(a, b) == UGt(b, a)

\* (acc * 10 + d) mod 2^32 on words, computed on 16-bit halves.
MulAdd10(acc, d) ==
    LET lo == acc % 65536
        hi == ((acc - lo) \div 65536) % 65536
        lo10 == (lo * 10) + d
        nlo == lo10 % 65536
        nhi == ((hi * 10) + (lo10 \div 65536)) % 65536
    IN  IF nhi >= 32768 THEN ((nhi - 65536) * 65536) + nlo
                        ELSE (nhi * 65536) + nlo

\* -w mod 2^32.
Neg32(w) == IF w = INT_MIN THEN w ELSE -w

----------------------------------------------------------------------------
(* Decimal conversions of stdio *)

DigitChars == <<"0", "1", "2", "3", "4", "5", "6", "7", "8", "9">>
IsDigit(c) == \E d \in 1..10 : DigitChars[d] = c
DigitVal(c) == (CHOOSE d \in 1..10 : DigitChars[d] = c) - 1
IsSpace(c) == c \in {" ", "\n", "\t"}

RECURSIVE NatDigits(_)
NatDigits(n) ==
    IF n < 10 THEN <<DigitChars[n + 1]>>
    ELSE Append(NatDigits(n \div 10), DigitChars[(n % 10) + 1])

\* printf's %u of the word w: the decimal digits of its unsigned value.
FmtU(w) ==
    IF w >= 0 THEN NatDigits(w)
    ELSE LET u == (w + 2147483647) + 1          \* unsigned value - 2^31
             low == (u % 10) + 8                \* 2^31 = 214748364 * 10 + 8
             q == ((u \div 10) + 214748364) + (low \div 10)
         IN  Append(NatDigits(q), DigitChars[(low % 10) + 1])

\* printf's %d of the word w.
FmtD(w) == IF w < 0 THEN <<"-">> \o FmtU(Neg32(w)) ELSE FmtU(w)

\* "axis %d: min = %u, max = %u\n"
MAP_FILE_LINE_FORMAT ==
    <<"a", "x", "i", "s", " ", "%", "d", ":", " ", "m", "i", "n", " ", "=", " ",
      "%", "u", ",", " ", "m", "a", "x", " ", "=", " ", "%", "u", "\n">>

\* fprintf(fp, fmt, args...): the characters produced.
RECURSIVE Fprintf(_, _)
Fprintf(fmt, args) ==
    IF fmt = <<>> THEN <<>>
    ELSE IF Head(fmt) = "%"
         THEN (IF fmt[2] = "d" THEN FmtD(Head(args)) ELSE FmtU(Head(args)))
              \o Fprintf(SubSeq(fmt, 3, Len(fmt)), Tail(args))
         ELSE <<Head(fmt)>> \o Fprintf(Tail(fmt), args)

\* First position >= p of `input` that holds no white space (Len+1 at the end).
RECURSIVE SkipSpace(_, _)
SkipSpace(input, p) ==
    IF p <= Len(input) /\ IsSpace(input[p]) THEN SkipSpace(input, p + 1) ELSE p

\* First position >= p of `input` that holds no digit.
RECURSIVE SkipDigits(_, _)
SkipDigits(input, p) ==
    IF p <= Len(input) /\ IsDigit(input[p]) THEN SkipDigits(input, p + 1) ELSE p

\* The word denoted by the digits input[p .. q-1], modulo 2^32.
RECURSIVE DigitsWord(_, _, _, _)
DigitsWord(input, p, q, acc) ==
    IF p >= q THEN acc
    ELSE DigitsWord(input, p + 1, q, MulAdd10(acc, DigitVal(input[p])))

\* fscanf(fp, fmt, ...) from position pos of `input`, directive by directive:
\* white space in the format skips any white space, %d and %u skip white
\* space and convert an optionally signed decimal number, any other
\* character must match.  The result: ret (the number of conversions, or EOF
\* on an input failure before the first conversion), vals (the converted
\* words in order), pos (the new stream position), eof (the EOF indicator:
\* set once a read has hit the end of the input).
RECURSIVE FscanfFrom(_, _, _, _, _)
FscanfFrom(input, fmt, pos, vals, eof) ==
    LET n == Len(vals)
        inputFailure == [ret |-> IF n = 0 THEN EOF ELSE n, vals |-> vals,
                         pos |-> Len(input) + 1, eof |-> TRUE]
    IN
    IF fmt = <<>> THEN [ret |-> n, vals |-> vals, pos |-> pos, eof |-> eof]
    ELSE IF IsSpace(Head(fmt))
    THEN LET p == SkipSpace(input, pos)
         IN  FscanfFrom(input, Tail(fmt), p, vals, eof \/ p > Len(input))
    ELSE IF Head(fmt) = "%"
    THEN LET p == SkipSpace(input, pos)
             signed == p <= Len(input) /\ input[p] \in {"-", "+"}
             d == IF signed THEN p + 1 ELSE p
             q == SkipDigits(input, d)
             mag == DigitsWord(input, d, q, 0)
             w == IF signed /\ input[p] = "-" THEN Neg32(mag) ELSE mag
         IN  IF d > Len(input) THEN inputFailure
             ELSE IF q = d
             THEN [ret |-> n, vals |-> vals, pos |-> d, eof |-> eof]
             ELSE FscanfFrom(input, SubSeq(fmt, 3, Len(fmt)), q,
                             Append(vals, w), eof \/ q > Len(input))
    ELSE IF pos > Len(input) THEN inputFailure
    ELSE IF input[pos] = Head(fmt)
    THEN FscanfFrom(input, Tail(fmt), pos + 1, vals, eof)
    ELSE [ret |-> n, vals |-> vals, pos |-> pos, eof |-> eof]

Fscanf(input, fmt, pos) == FscanfFrom(input, fmt, pos, <<>>, FALSE)

----------------------------------------------------------------------------
(* Bounds and input sets *)

\* Distinct samples (axis, value) applied to the table in one capture.
MaxEvents == 4
\* Chunks an initial mapping file is made of.
MaxChunks == 2
\* Invocations of the program on the same device and mapping file.
MaxRuns == 2

\* 32-bit values an input_event carries.
SampleValues == {-1, 50, 300, 500, 900, 70000}
\* Samples the device sends: (code, value) of its EV_ABS events.  Codes 6
\* (ABS_THROTTLE), 11 and 16 (ABS_HAT0X) lie beyond ABS_RZ.
Samples ==
    ({0} \X SampleValues) \cup ({5} \X {-1, 500})
    \cup {<<1, 500>>, <<6, 500>>, <<11, 50>>, <<16, 900>>}
\* The sets of EV_ABS codes of the devices considered.
DevAxesSets == {{}, {1}, {0, 5, 6}}
\* All codes for which the device configuration is tracked.
DevCodes == 0 .. 11
\* Contents an uninitialised int or unsigned int may be read as.
GarbageAxis == {-1, 2}
GarbageWord == {77}

ArgvSet ==
    { <<>>, <<"-h">>, <<"--help", "js0", "map", "x">>, <<"detect", "js0">>,
      <<"detect", "js0", "map">>, <<"load", "js0", "map">>,
      <<"calibrate", "js0", "map">>, <<"load", "js0", "map", "x">> }

Line(axis, min, max) == Fprintf(MAP_FILE_LINE_FORMAT, <<axis, min, max>>)

\* Pieces of mapping files: well-formed lines, a line for an axis beyond the
\* table, one for a negative axis, a line that matches nothing, a line that
\* matches up to its first number, and lines cut short by the end of the file.
Chunks ==
    { Line(0, 50, 900), Line(1, 0, -1), Line(0, 300, 500),
      Line(6, 1, 2), Line(-1, 1, 2),
      <<"f", "o", "o", "\n">>,
      SubSeq(Line(1, 3, 4), 1, 14) \o <<"x", "\n">>,
      SubSeq(Line(1, 3, 4), 1, 4) }

RECURSIVE FilesOf(_)
FilesOf(n) ==
    IF n = 0 THEN {<<>>}
    ELSE LET shorter == FilesOf(n - 1)
         IN  shorter \cup {f \o c : f \in shorter, c \in Chunks}

\* The mapping files load is started on.
InitFiles == FilesOf(MaxChunks)
\* The mapping file before an invocation that does not read it: none or
\* empty, or an earlier mapping.
OldFiles == {<<>>, Line(0, 50, 900) \o Line(5, 7, 9)}

----------------------------------------------------------------------------
(* State *)

NoRange == [present |-> FALSE, min |-> 0, max |-> 0]
\* axis_range axes_ranges[AXIS_COUNT] = {0};
ZeroTable == [i \in TableIdx |-> NoRange]

NoEvent == [ret |-> "none", type |-> 0, code |-> 0, value |-> 0]
\* load: the stream (pos, eof), the result of the last fscanf (ret), the
\* locals axis, min, max as last read, and what the last iteration did: iter
\* (iterations so far, capped), oob (its index was outside the table), stuck
\* (it left the stream where it was, short of the end).
NoScan == [pos |-> 1, eof |-> FALSE, ret |-> 0, axis |-> 0, min |-> 0, max |-> 0,
           iter |-> 0, oob |-> FALSE, stuck |-> FALSE]
NoRevents == [dev |-> FALSE, sig |-> FALSE]
NoSeen == [i \in TableIdx |-> {}]

\* No table is known to have produced the mapping file.
NotWritten == [valid |-> FALSE, tab |-> ZeroTable]

\* History of an invocation: seen (the samples applied per axis), nev (the
\* number of distinct ones), runs (invocations so far), sigAt (where SIGINT arrived), abs0
\* (the device configuration at the start), written (the table whose complete
\* write made the mapping file), branch (what the loop body did since the last
\* poll: "finalize", "unknown", or the outcome of the event read), consumed
\* (libevdev_next_event was called), lines (lines written), good (the table of
\* the lines load parsed in full), clean (every fscanf so far converted all
\* three numbers), again (the invocation before this one was a load of the
\* same file on the same device that returned success), after (calls of
\* libevdev_next_event made while SIGINT was pending, counted up to 2), old
\* (the mapping file as the invocation found it).
NewHist(runs, abs, written, again, old) ==
    [seen |-> NoSeen, nev |-> 0, runs |-> runs, sigAt |-> "none", abs0 |-> abs,
     written |-> written, branch |-> "none", consumed |-> FALSE, lines |-> 0,
     good |-> ZeroTable, clean |-> TRUE, again |-> again, after |-> 0,
     old |-> old]

\* A fresh process image: nothing of an earlier invocation survives but the
\* mapping file and the device.
Fresh(args, runs, abs, written, again) ==
    /\ pc' = "main"
    /\ argv' = args
    /\ exitStatus' = -1
    /\ axes_ranges' = ZeroTable
    /\ sig' = [blocked |-> FALSE, pending |-> FALSE]
    /\ event' = NoEvent
    /\ scan' = NoScan
    /\ revents' = NoRevents
    /\ log' = {}
    /\ hist' = NewHist(runs, abs, written, again, mapFile)

Init ==
    /\ pc = "main"
    /\ argv \in ArgvSet
    /\ exitStatus = -1
    /\ devAxes \in DevAxesSets
    /\ devAbs = [c \in DevCodes |-> [minimum |-> 0, maximum |-> 255]]
    /\ mapFile \in (IF argv = <<"load", "js0", "map">> THEN InitFiles ELSE OldFiles)
    /\ axes_ranges = ZeroTable
    /\ sig = [blocked |-> FALSE, pending |-> FALSE]
    /\ event = NoEvent
    /\ scan = NoScan
    /\ revents = NoRevents
    /\ log = {}
    /\ hist = NewHist(1, devAbs, NotWritten, FALSE, mapFile)

\* The process ends: main returns `status`, or a signal ends it.
Exit(status) ==
    /\ pc' = "exited"
    /\ exitStatus' = status

\* return ok; from detect or load, through `return !detect(...)` in main.
ExitOf(ok) == IF ok THEN 0 ELSE 1

Return(ok) == Exit(ExitOf(ok))

Report(msg) == log' = log \cup {msg}

----------------------------------------------------------------------------
(* main *)

\* libevdev_has_event_code(dev, EV_ABS, axis)
HasAxis(axis) == axis \in devAxes

IsHelp(args) == Len(args) >= 1 /\ args[1] \in {"-h", "--help"}

\* main: the help test, the arity test, open_device, the dispatch.
Main ==
    /\ pc = "main"
    /\ UNCHANGED <<argv, devAxes, devAbs, mapFile, axes_ranges, sig, event,
                   scan, revents, hist>>
    /\ IF IsHelp(argv)
       THEN Report("usage") /\ Exit(0)
       ELSE IF Len(argv) + 1 # 4
       THEN Report("wrong number of arguments") /\ Exit(1)
       ELSE \E opened \in {"ok", "open", "bind"} :
              IF opened # "ok"
              THEN Report(opened) /\ Exit(1)
              ELSE IF argv[1] = "detect"
              THEN pc' = "detect" /\ UNCHANGED <<exitStatus, log>>
              ELSE IF argv[1] = "load"
              THEN pc' = "load" /\ UNCHANGED <<exitStatus, log>>
              ELSE Report("invalid command") /\ Exit(1)

----------------------------------------------------------------------------
(* detect *)

\* InitialTable without the sentinel of min.
InitialTable_NoSentinel ==
    [i \in TableIdx |->
        IF HasAxis(AXIS_A + i)
        THEN [present |-> TRUE, min |-> 0, max |-> 0]
        ELSE NoRange]

\* The table after the capability loop: every axis the device has starts at
\* max = 0, min = USHRT_MAX.
InitialTable ==
    [i \in TableIdx |->
        IF HasAxis(AXIS_A + i)
        THEN [present |-> TRUE, min |-> USHRT_MAX, max |-> 0]
        ELSE NoRange]

\* detect, up to the end of the capability loop.
DetectInit ==
    /\ pc = "detect"
    /\ axes_ranges' = InitialTable
    /\ pc' = "detect_fopen"
    /\ UNCHANGED <<argv, exitStatus, devAxes, devAbs, mapFile, sig, event, scan,
                   revents, log, hist>>

\* FopenW leaving the content of the file in place.
FopenW_Keep(file) == file

\* The content of a file after a successful fopen(..., "w").
FopenW(file) == <<>>

\* fopen(map_file, "w"): the file is truncated, or the open fails.
DetectFopen ==
    /\ pc = "detect_fopen"
    /\ UNCHANGED <<argv, devAxes, devAbs, axes_ranges, sig, event, scan, revents>>
    /\ \E ok \in BOOLEAN :
         IF ok
         THEN /\ mapFile' = FopenW(mapFile)
              /\ hist' = [hist EXCEPT !.written = NotWritten]
              /\ pc' = "detect_sigprocmask"
              /\ UNCHANGED <<exitStatus, log>>
         ELSE /\ Report("opening map file")
              /\ Return(FALSE)
              /\ UNCHANGED <<mapFile, hist>>

\* sigprocmask(SIG_BLOCK, {SIGINT}): from here on SIGINT stays pending.
DetectSigprocmask ==
    /\ pc = "detect_sigprocmask"
    /\ UNCHANGED <<argv, devAxes, devAbs, mapFile, axes_ranges, event, scan,
                   revents, hist>>
    /\ \E ok \in BOOLEAN :
         IF ok
         THEN /\ sig' = [sig EXCEPT !.blocked = TRUE]
              /\ pc' = "detect_signalfd"
              /\ UNCHANGED <<exitStatus, log>>
         ELSE /\ Report("sigprocmask")
              /\ Return(FALSE)
              /\ UNCHANGED sig

\* signalfd(-1, {SIGINT}, 0), the pollfd set-up and the two prompts.
DetectSignalfd ==
    /\ pc = "detect_signalfd"
    /\ UNCHANGED <<argv, devAxes, devAbs, mapFile, axes_ranges, sig, event, scan,
                   revents, hist>>
    /\ \E ok \in BOOLEAN :
         IF ok
         THEN /\ Report("prompt")
              /\ pc' = "poll"
              /\ UNCHANGED exitStatus
         ELSE /\ Report("signalfd")
              /\ Return(FALSE)

\* poll(fds, 2, -1): blocks until the device or the signalfd is ready, or
\* fails.  The signalfd reads ready exactly when SIGINT is pending; the device
\* is ready (POLLIN), silent, or in an error state (POLLERR/POLLHUP only).
DetectPoll ==
    /\ pc = "poll"
    /\ UNCHANGED <<argv, devAxes, devAbs, mapFile, axes_ranges, sig, scan>>
    /\ event' = NoEvent
    /\ hist' = [hist EXCEPT !.branch = "none"]
    /\ \E r \in {"fail", "in", "silent", "err"} :
         IF r = "fail"
         THEN /\ Report("poll")
              /\ Return(FALSE)
              /\ UNCHANGED revents
         ELSE /\ r = "silent" => sig.pending
              /\ revents' = [dev |-> r = "in", sig |-> sig.pending]
              /\ pc' = "wake"
              /\ UNCHANGED <<exitStatus, log>>

\* Branch with the device tested before the signalfd.
Branch_DeviceFirst(re) ==
    IF re.dev THEN "event" ELSE IF re.sig THEN "finalize" ELSE "unknown"

\* The if / else if / else on revents after poll.
Branch(re) ==
    IF re.sig THEN "finalize" ELSE IF re.dev THEN "event" ELSE "unknown"

\* PresentFrom without the test of `present`.
PresentFrom_All(tab, axis) ==
    [k \in 1 .. ((AXIS_Z - axis) + 1) |-> (axis + k) - 1]

\* The present axes, in the order of the write loop.
RECURSIVE PresentFrom(_, _)
PresentFrom(tab, axis) ==
    IF axis > AXIS_Z THEN <<>>
    ELSE (IF tab[axis - AXIS_A].present THEN <<axis>> ELSE <<>>)
         \o PresentFrom(tab, axis + 1)

\* The lines the write loop prints for the first n present axes.
RECURSIVE WriteLines(_, _, _)
WriteLines(tab, axes, n) ==
    IF n = 0 \/ axes = <<>> THEN <<>>
    ELSE Line(Head(axes), tab[Head(axes) - AXIS_A].min, tab[Head(axes) - AXIS_A].max)
         \o WriteLines(tab, Tail(axes), n - 1)

\* The file a complete write of `tab` produces.
WriteTable(tab) ==
    WriteLines(tab, PresentFrom(tab, AXIS_A), AXIS_COUNT)

\* The signalfd is ready: one line per present axis, return true; a failing
\* fprintf ends the loop with the earlier lines written, return false.
DetectFinalize ==
    /\ pc = "wake"
    /\ Branch(revents) = "finalize"
    /\ UNCHANGED <<argv, devAxes, devAbs, axes_ranges, sig, event, scan, revents>>
    /\ LET axes == PresentFrom(axes_ranges, AXIS_A)
       IN  \E n \in 0 .. Len(axes) :
             /\ mapFile' = mapFile \o WriteLines(axes_ranges, axes, n)
             /\ IF n = Len(axes)
                THEN /\ Return(TRUE)
                     /\ hist' = [hist EXCEPT !.branch = "finalize", !.lines = n,
                                   !.written = [valid |-> TRUE, tab |-> axes_ranges]]
                     /\ UNCHANGED log
                ELSE /\ Report("writing line")
                     /\ Return(FALSE)
                     /\ hist' = [hist EXCEPT !.branch = "finalize", !.lines = n]

\* What libevdev_next_event may deliver.
NextEventResults ==
    {[ret |-> "error", type |-> 0, code |-> 0, value |-> 0],
     [ret |-> "sync", type |-> 0, code |-> 0, value |-> 0],
     [ret |-> "success", type |-> 0, code |-> 0, value |-> 0],      \* EV_SYN
     [ret |-> "success", type |-> 1, code |-> 1, value |-> 1]}      \* EV_KEY
    \cup {[ret |-> "success", type |-> EV_ABS, code |-> s[1], value |-> s[2]] :
             s \in Samples}

\* OutOfRange with >= for the upper limit.
OutOfRange_OffByOne(ev) ==
    ev.type # EV_ABS \/ ev.code < AXIS_A \/ ev.code >= AXIS_Z

\* OutOfRange without the test of the event type.
OutOfRange_NoTypeCheck(ev) ==
    ev.code < AXIS_A \/ ev.code > AXIS_Z

\* event.type != EV_ABS || event.code < AXIS_A || event.code > AXIS_Z
OutOfRange(ev) ==
    ev.type # EV_ABS \/ ev.code < AXIS_A \/ ev.code > AXIS_Z

\* UpdateRange with the second comparison made the else-branch of the first.
UpdateRange_ElseIf(range, value) ==
    IF UGt(value, range.max) THEN [range EXCEPT !.max = value]
    ELSE IF ULt(value, range.min) THEN [range EXCEPT !.min = value]
    ELSE range

\* UpdateRange with both comparisons made on int.
UpdateRange_Signed(range, value) ==
    [range EXCEPT !.max = IF value > range.max THEN value ELSE range.max,
                  !.min = IF value < range.min THEN value ELSE range.min]

\* The two comparisons of a sample with the range: event.value is converted
\* to unsigned int for both.
UpdateRange(range, value) ==
    [range EXCEPT !.max = IF UGt(value, range.max) THEN value ELSE range.max,
                  !.min = IF ULt(value, range.min) THEN value ELSE range.min]

\* EventOutcome without the test of `present`.
EventOutcome_NoPresentCheck(ev, tab) ==
    IF ev.ret = "error" THEN "read error"
    ELSE IF ev.ret = "sync" THEN "ignored"
    ELSE IF OutOfRange(ev) THEN "ignored"
    ELSE "sample"

\* What the loop body does with the result of libevdev_next_event.
EventOutcome(ev, tab) ==
    IF ev.ret = "error" THEN "read error"
    ELSE IF ev.ret = "sync" THEN "ignored"
    ELSE IF OutOfRange(ev) THEN "ignored"
    ELSE IF ~tab[ev.code - AXIS_A].present THEN "internal error"
    ELSE "sample"

\* The history after a call of libevdev_next_event with the outcome `out`.
Consumed(out) ==
    [hist EXCEPT !.branch = out, !.consumed = TRUE,
                 !.after = IF sig.pending /\ @ < 2 THEN @ + 1 ELSE @]

\* Only the device is ready: libevdev_next_event and the handling of its result.
DetectEvent ==
    /\ pc = "wake"
    /\ Branch(revents) = "event"
    /\ UNCHANGED <<argv, devAxes, devAbs, mapFile, sig, scan, revents>>
    /\ \E ev \in NextEventResults :
         LET out == EventOutcome(ev, axes_ranges)
         IN  /\ event' = ev
             /\ CASE out = "read error" ->
                       /\ Report("reading next event")
                       /\ Return(FALSE)
                       /\ hist' = Consumed(out)
                       /\ UNCHANGED axes_ranges
                  [] out = "ignored" ->
                       /\ pc' = "poll"
                       /\ hist' = Consumed(out)
                       /\ UNCHANGED <<axes_ranges, exitStatus, log>>
                  [] out = "internal error" ->
                       /\ Report("INTERNAL ERROR")
                       /\ Return(FALSE)
                       /\ hist' = Consumed(out)
                       /\ UNCHANGED axes_ranges
                  [] out = "sample" ->
                       LET new == ev.value \notin hist.seen[ev.code - AXIS_A]
                       IN
                       /\ new => hist.nev < MaxEvents
                       /\ axes_ranges' =
                            [axes_ranges EXCEPT ![ev.code - AXIS_A] =
                                UpdateRange(@, ev.value)]
                       /\ hist' = [Consumed(out) EXCEPT
                                     !.nev = IF new THEN @ + 1 ELSE @,
                                     !.seen[ev.code - AXIS_A] = @ \cup {ev.value}]
                       /\ pc' = "poll"
                       /\ UNCHANGED <<exitStatus, log>>

\* Neither descriptor reports POLLIN.
DetectUnknown ==
    /\ pc = "wake"
    /\ Branch(revents) = "unknown"
    /\ Report("unknown error while polling")
    /\ Return(FALSE)
    /\ hist' = [hist EXCEPT !.branch = "unknown"]
    /\ UNCHANGED <<argv, devAxes, devAbs, mapFile, axes_ranges, sig, event, scan,
                   revents>>

\* The control locations of detect.
DetectPcs ==
    {"detect", "detect_fopen", "detect_sigprocmask", "detect_signalfd", "poll",
     "wake"}

\* SIGINT is sent to the process while it is in detect: it stays pending when
\* blocked, and ends the process (default action) otherwise.  At most one
\* SIGINT per invocation: a second one changes nothing while the first is
\* pending.
SigInt ==
    /\ pc \in DetectPcs
    /\ hist.sigAt = "none"
    /\ hist' = [hist EXCEPT !.sigAt = pc]
    /\ UNCHANGED <<argv, devAxes, devAbs, mapFile, axes_ranges, event, scan,
                   revents, log>>
    /\ IF sig.blocked
       THEN /\ sig' = [sig EXCEPT !.pending = TRUE]
            /\ UNCHANGED <<pc, exitStatus>>
       ELSE /\ Exit(130)
            /\ UNCHANGED sig

----------------------------------------------------------------------------
(* load *)

\* fopen(map_file, "r")
LoadFopen ==
    /\ pc = "load"
    /\ UNCHANGED <<argv, devAxes, devAbs, mapFile, axes_ranges, sig, event,
                   revents, hist>>
    /\ \E ok \in BOOLEAN :
         IF ok
         THEN /\ pc' = "load_read"
              /\ scan' = NoScan
              /\ UNCHANGED <<exitStatus, log>>
         ELSE /\ Report("opening map file")
              /\ Return(FALSE)
              /\ UNCHANGED scan

\* What a local that fscanf did not assign may be read as: what the last
\* iteration left in its place, or anything else.
Indeterminate(slot, garbage) == {slot} \cup garbage

\* The entry a line of the file stands for.
RangeOf(min, max) == [present |-> TRUE, min |-> min, max |-> max]

\* One iteration of while (!feof(fp)): fscanf, the report when it returns a
\* negative value, and the store into axes_ranges[axis - AXIS_A] that follows
\* whatever fscanf returned.  A store outside the table either faults or lands
\* in other memory.
LoadRead ==
    /\ pc = "load_read"
    /\ ~scan.eof
    /\ UNCHANGED <<argv, devAxes, devAbs, mapFile, sig, event, revents>>
    /\ LET r == Fscanf(mapFile, MAP_FILE_LINE_FORMAT, scan.pos)
           n == Len(r.vals)
       IN  \E axis \in (IF n >= 1 THEN {r.vals[1]}
                        ELSE Indeterminate(scan.axis, GarbageAxis)),
              min \in (IF n >= 2 THEN {r.vals[2]}
                       ELSE Indeterminate(scan.min, GarbageWord)),
              max \in (IF n >= 3 THEN {r.vals[3]}
                       ELSE Indeterminate(scan.max, GarbageWord)) :
             LET idx == axis - AXIS_A
                 inside == idx \in TableIdx
             IN  /\ IF r.ret < 0 THEN Report("reading line") ELSE UNCHANGED log
                 /\ scan' = [pos |-> r.pos, eof |-> r.eof, ret |-> r.ret,
                             axis |-> axis, min |-> min, max |-> max,
                             iter |-> IF scan.iter < 2 THEN scan.iter + 1 ELSE 2,
                             oob |-> ~inside,
                             stuck |-> r.pos = scan.pos /\ ~r.eof]
                 /\ hist' = [hist EXCEPT !.clean = @ /\ r.ret = 3,
                               !.good =
                               IF r.ret = 3 /\ inside
                               THEN [@ EXCEPT ![idx] = RangeOf(min, max)] ELSE @]
                 /\ IF inside
                    THEN /\ axes_ranges' =
                              [axes_ranges EXCEPT ![idx] = RangeOf(min, max)]
                         /\ UNCHANGED <<pc, exitStatus>>
                    ELSE /\ UNCHANGED axes_ranges
                         /\ \/ UNCHANGED <<pc, exitStatus>>
                            \/ Exit(139)

\* SetAbs moving the limits by min and max instead of setting them.
SetAbs_Offset(abs, axis, min, max) ==
    [abs EXCEPT ![axis] = [minimum |-> (@.minimum + min) % 65536,
                           maximum |-> (@.maximum + max) % 65536]]

\* libevdev_set_abs_minimum(dev, axis, min); libevdev_set_abs_maximum(dev, axis, max)
SetAbs(abs, axis, min, max) ==
    [abs EXCEPT ![axis] = [minimum |-> min, maximum |-> max]]

\* The apply loop from `axis` on: [ok, abs] with ok = FALSE when a present
\* axis is missing from the device.
RECURSIVE ApplyFrom(_, _, _)
ApplyFrom(tab, axis, abs) ==
    IF axis > AXIS_Z THEN [ok |-> TRUE, abs |-> abs]
    ELSE LET range == tab[axis - AXIS_A]
         IN  IF ~range.present THEN ApplyFrom(tab, axis + 1, abs)
             ELSE IF ~HasAxis(axis) THEN [ok |-> FALSE, abs |-> abs]
             ELSE ApplyFrom(tab, axis + 1, SetAbs(abs, axis, range.min, range.max))

\* feof(fp) holds: the apply loop and the return.
LoadApply ==
    /\ pc = "load_read"
    /\ scan.eof
    /\ UNCHANGED <<argv, devAxes, mapFile, axes_ranges, sig, event, scan, revents,
                   hist>>
    /\ LET a == ApplyFrom(axes_ranges, AXIS_A, devAbs)
       IN  /\ devAbs' = a.abs
           /\ IF a.ok THEN UNCHANGED log ELSE Report("axis exists in mapping but not in device")
           /\ Return(a.ok)

\* The operator runs load again, on the same device and mapping file.  (A
\* later detect reads nothing an earlier invocation left behind, so its
\* start states are initial states already.)
Reload ==
    /\ pc = "exited"
    /\ hist.runs < MaxRuns
    /\ Fresh(<<"load", "js0", "map">>, hist.runs + 1, devAbs, hist.written,
             argv = <<"load", "js0", "map">> /\ exitStatus = 0)
    /\ UNCHANGED <<devAxes, devAbs, mapFile>>

Next ==
    \/ Main
    \/ DetectInit
    \/ DetectFopen
    \/ DetectSigprocmask
    \/ DetectSignalfd
    \/ DetectPoll
    \/ DetectFinalize
    \/ DetectEvent
    \/ DetectUnknown
    \/ SigInt
    \/ LoadFopen
    \/ LoadRead
    \/ LoadApply
    \/ Reload

Spec == Init /\ [][Next]_vars

----------------------------------------------------------------------------
(* Vocabulary of the properties *)

SetMin(S) == CHOOSE x \in S : \A y \in S : x <= y
SetMax(S) == CHOOSE x \in S : \A y \in S : x >= y

\* Position of the first "\n" of f at or after p (Len(f) + 1 when none).
RECURSIVE NewlineFrom(_, _)
NewlineFrom(f, p) ==
    IF p > Len(f) \/ f[p] = "\n" THEN p ELSE NewlineFrom(f, p + 1)

\* The lines of a file, each with its terminating "\n".
RECURSIVE SplitLines(_)
SplitLines(f) ==
    IF f = <<>> THEN <<>>
    ELSE LET k == NewlineFrom(f, 1)
         IN  IF k >= Len(f) THEN <<f>>
             ELSE <<SubSeq(f, 1, k)>> \o SplitLines(SubSeq(f, k + 1, Len(f)))

\* The invocation runs (or ran) detect / load.
InDetect == Len(argv) = 3 /\ argv[1] = "detect"
InLoad == Len(argv) = 3 /\ argv[1] = "load"

\* All samples applied to entry i lie in 0..65535, and there is at least one.
InShortRange(i) ==
    hist.seen[i] # {} /\ \A v \in hist.seen[i] : v >= 0 /\ v <= 65535

\* The number of the line of entry i in a complete write of the table.
LineNo(i) == Cardinality({j \in TableIdx : j <= i /\ axes_ranges[j].present})

----------------------------------------------------------------------------
(* C1 *)

\* C1: for an axis whose samples all lie in 0..65535, the entry of the table
\* holds the smallest and the largest value sampled, whatever the order and
\* the repetitions of the samples, and so does the line written for it when
\* the capture is cancelled.
C1_AggregateMinMax ==
    \A i \in TableIdx :
        InShortRange(i) =>
            /\ axes_ranges[i] = [present |-> TRUE, min |-> SetMin(hist.seen[i]),
                                 max |-> SetMax(hist.seen[i])]
            /\ (hist.branch = "finalize" /\ LineNo(i) <= hist.lines) =>
                   /\ Len(SplitLines(mapFile)) >= LineNo(i)
                   /\ SplitLines(mapFile)[LineNo(i)] =
                        Line(AXIS_A + i, SetMin(hist.seen[i]), SetMax(hist.seen[i]))

\* The samples 300, 50, 900, 500 of axis 0 were applied, the capture was
\* cancelled, and the line of axis 0 reads min = 50, max = 900.
C1_Witness ==
    /\ pc = "exited" /\ exitStatus = 0 /\ InDetect
    /\ hist.seen[0] = {300, 50, 900, 500}
    /\ SplitLines(mapFile)[1] = Line(0, 50, 900)

----------------------------------------------------------------------------
(* C2 *)

\* C2: when load fails because the mapping names an axis the device lacks,
\* the configuration of every axis of the device is what it was before load
\* (stated for mapping files of which every line parsed in full).
C2_MismatchAllOrNothing ==
    (pc = "exited" /\ hist.clean
        /\ "axis exists in mapping but not in device" \in log)
        => devAbs = hist.abs0

----------------------------------------------------------------------------
(* C3 *)

\* What the program prints when an operation fails.
FailureReports ==
    {"wrong number of arguments", "open", "bind", "invalid command",
     "opening map file", "sigprocmask", "signalfd", "poll", "writing line",
     "reading next event", "INTERNAL ERROR", "unknown error while polling",
     "reading line", "axis exists in mapping but not in device"}

Failed == log \cap FailureReports # {}

\* Where SIGINT finds the process before / after sigprocmask(SIG_BLOCK).
UnblockedPcs == {"detect", "detect_fopen", "detect_sigprocmask"}
BlockedPcs == {"detect_signalfd", "poll", "wake"}

\* C3, as claimed: a SIGINT that arrives anywhere in detect but in the
\* blocked wait (initialisation included) is followed by the write of the
\* table (stated for runs in which nothing fails).
C3_NeverMissed ==
    (pc = "exited" /\ hist.sigAt \in (UnblockedPcs \cup BlockedPcs) /\ ~Failed)
        => hist.branch = "finalize"

\* C3, amended: a SIGINT that arrives once sigprocmask has blocked it stays
\* pending until detect ends, every wait that returns after it reports the
\* signalfd ready, a ready signalfd always leads to the write loop, and
\* detect ends only by the write loop or by a reported failure.  A SIGINT that
\* arrives before the block ends the process with nothing written.
C3_NeverMissedOnceBlocked ==
    /\ hist.sigAt \in BlockedPcs =>
          /\ pc # "exited" => sig.pending
          /\ (pc = "wake" /\ hist.sigAt # "wake") => revents.sig
          /\ pc = "exited" =>
                /\ exitStatus \in {0, 1}
                /\ hist.branch = "finalize" \/ Failed
    /\ (pc \in {"poll", "exited"} /\ revents.sig /\ hist.branch # "none") =>
          hist.branch = "finalize"
    /\ hist.sigAt \in UnblockedPcs =>
          /\ pc = "exited" /\ exitStatus = 130
          /\ hist.branch = "none" /\ hist.lines = 0

\* SIGINT arrived while an event was being handled; the table was written.
C3_Witness ==
    /\ pc = "exited" /\ exitStatus = 0
    /\ hist.sigAt = "wake" /\ hist.nev >= 1 /\ hist.branch = "finalize"

----------------------------------------------------------------------------
(* C4 *)

PresentCount == Cardinality({i \in TableIdx : axes_ranges[i].present})

\* The present entry whose line is the k-th of a complete write.
NthPresent(k) ==
    CHOOSE i \in TableIdx : axes_ranges[i].present /\ LineNo(i) = k

\* The first n lines of the table: one per present axis, ascending.
TableLines(n) ==
    [k \in 1 .. n |->
        Line(AXIS_A + NthPresent(k), axes_ranges[NthPresent(k)].min,
             axes_ranges[NthPresent(k)].max)]

\* C4, as claimed: no line is in the file while detect waits, and a run that
\* reaches the write loop writes one line per present axis, ascending, with
\* the final min/max, and returns success.
C4_FlushOnce ==
    /\ pc \in {"poll", "wake"} => mapFile = <<>>
    /\ hist.branch = "finalize" =>
          /\ exitStatus = 0
          /\ SplitLines(mapFile) = TableLines(PresentCount)

\* C4, amended: the same, unless an fprintf fails: then the file holds the
\* lines of the first present axes only and detect returns failure.  The
\* file changes only when it is opened (truncated) and in the write loop;
\* nothing is written after detect has returned.
C4_FlushOnceUnlessWriteFails ==
    /\ [](/\ pc \in {"detect_sigprocmask", "detect_signalfd", "poll", "wake"}
               => mapFile = <<>>
          /\ hist.branch = "finalize" =>
               /\ pc = "exited"
               /\ hist.lines <= PresentCount
               /\ SplitLines(mapFile) = TableLines(hist.lines)
               /\ exitStatus = IF hist.lines = PresentCount THEN 0 ELSE 1
               /\ hist.lines < PresentCount => "writing line" \in log)
    /\ [][mapFile' # mapFile =>
            \/ pc = "detect_fopen" /\ mapFile' = <<>>
            \/ pc = "wake" /\ revents.sig /\ hist'.branch = "finalize"]_vars

\* Two axes were sampled, the capture was cancelled, two lines were written.
C4_Witness ==
    /\ pc = "exited" /\ exitStatus = 0 /\ hist.branch = "finalize"
    /\ hist.seen[0] # {} /\ hist.seen[5] # {}
    /\ Len(SplitLines(mapFile)) = 2

----------------------------------------------------------------------------
(* C5 *)

\* C5: when load meets a line that does not match the format, it reports a
\* parse error, neither faults nor stays at the same place of the file, and
\* the table still holds every line parsed in full before, unchanged.
C5_ParseRobustness ==
    (InLoad /\ mapFile # <<>> /\ scan.iter >= 1 /\ scan.ret # 3) =>
        /\ "reading line" \in log
        /\ ~scan.stuck
        /\ exitStatus # 139
        /\ \A i \in TableIdx :
              hist.good[i].present => axes_ranges[i] = hist.good[i]

----------------------------------------------------------------------------
(* C6 *)

\* min <= max (as unsigned int) for every present entry.
WellFormed(tab) == \A i \in TableIdx : tab[i].present => ~UGt(tab[i].min, tab[i].max)

SameRanges(t1, t2) ==
    \A i \in TableIdx :
        /\ t1[i].present = t2[i].present
        /\ t1[i].present => t1[i].min = t2[i].min /\ t1[i].max = t2[i].max

\* load has read the whole file, or faulted while reading it.
ReadOver == InLoad /\ (scan.eof \/ exitStatus = 139)

\* C6: when load reads a file that a complete write of a table with
\* min <= max produced, it ends up with the same present set and the same
\* min/max, whatever the present set (the empty one included).
C6_RoundTrip ==
    (ReadOver /\ hist.written.valid /\ WellFormed(hist.written.tab)) =>
        /\ exitStatus # 139
        /\ SameRanges(axes_ranges, hist.written.tab)

----------------------------------------------------------------------------
(* C7 *)

\* detect is past its capability loop.
PastInit ==
    \/ pc \in DetectPcs \ {"detect"}
    \/ pc = "exited" /\ InDetect /\ hist.branch # "none"

AbsEvent == event.ret = "success" /\ event.type = 3

\* C7, as claimed: every axis 0..11 of the device has a present entry after
\* the capability loop, and an EV_ABS event is discarded only when its code
\* is outside 0..11.
C7_TwelveAxes ==
    /\ PastInit =>
          \A a \in devAxes \cap (0 .. 11) :
              a \in DOMAIN axes_ranges /\ axes_ranges[a].present
    /\ (AbsEvent /\ hist.branch = "ignored") => event.code \notin 0 .. 11

\* C7, amended: the table has the 6 entries 0..5 (ABS_X..ABS_RZ); after the
\* capability loop an entry is present exactly when the device has that
\* axis; an EV_ABS event is discarded exactly when its code is outside 0..5
\* (codes 6..11 included), and a sample of a present axis 0..5 leaves its
\* value within the entry's min/max.
C7_SixAxes ==
    /\ DOMAIN axes_ranges = 0 .. 5
    /\ Cardinality(DOMAIN axes_ranges) = 6
    /\ PastInit => \A a \in 0 .. 5 : axes_ranges[a].present <=> a \in devAxes
    /\ (AbsEvent /\ hist.branch # "none") =>
          /\ hist.branch = "ignored" <=> event.code \notin 0 .. 5
          /\ hist.branch = "sample" <=>
                 (event.code \in 0 .. 5 /\ event.code \in devAxes)
          /\ hist.branch = "sample" =>
                 /\ ~UGt(event.value, axes_ranges[event.code].max)
                 /\ ~ULt(event.value, axes_ranges[event.code].min)

\* A sample of axis 5, the last supported one, was applied.
C7_Witness ==
    /\ pc = "poll" /\ hist.branch = "sample"
    /\ event.code = 5 /\ event.value = 500
    /\ axes_ranges[5].min = 500 /\ axes_ranges[5].max = 500

----------------------------------------------------------------------------
(* C8 *)

\* The axes 0..5 of the device, ascending.
RECURSIVE Ascending(_)
Ascending(S) ==
    IF S = {} THEN <<>> ELSE <<SetMin(S)>> \o Ascending(S \ {SetMin(S)})

ReportedAxes == Ascending(devAxes \cap (0 .. 5))

\* The first n lines of a file of untouched sentinels.
SentinelLines(n) == [k \in 1 .. n |-> Line(ReportedAxes[k], 65535, 0)]

CancelledBeforeAnyEvent == hist.branch = "finalize" /\ ~hist.consumed

\* C8, as claimed: cancelled before any event was read, detect succeeds and
\* the file holds one line min = 65535, max = 0 per axis of the device.
C8_CancelFirst ==
    CancelledBeforeAnyEvent =>
        /\ exitStatus = 0
        /\ SplitLines(mapFile) = SentinelLines(Len(ReportedAxes))

\* C8, amended: the same, unless an fprintf fails: then detect returns
\* failure and the file holds the sentinel lines of the first axes only.
C8_CancelFirstUnlessWriteFails ==
    CancelledBeforeAnyEvent =>
        /\ pc = "exited"
        /\ hist.lines <= Len(ReportedAxes)
        /\ SplitLines(mapFile) = SentinelLines(hist.lines)
        /\ exitStatus = IF hist.lines = Len(ReportedAxes) THEN 0 ELSE 1
        /\ exitStatus = 1 => "writing line" \in log

\* Cancelled at the first wake on a device with the axes 0 and 5.
C8_Witness ==
    /\ CancelledBeforeAnyEvent /\ exitStatus = 0
    /\ devAxes = {0, 5, 6}
    /\ mapFile = Line(0, 65535, 0) \o Line(5, 65535, 0)

----------------------------------------------------------------------------
(* C9 *)

\* A resynchronisation, an event of another type than EV_ABS, or an EV_ABS
\* event whose code is outside the table.
Ignorable(ev) ==
    \/ ev.ret = "sync"
    \/ ev.ret = "success" /\ (ev.type # 3 \/ ev.code \notin 0 .. 5)

\* C9: the step that reads an ignorable input changes no entry of the table,
\* reports nothing, writes nothing, and leaves detect waiting.
C9_IgnoredInputs ==
    [][(pc = "wake" /\ event'.ret # "none" /\ Ignorable(event')) =>
          /\ axes_ranges' = axes_ranges
          /\ log' = log
          /\ mapFile' = mapFile
          /\ exitStatus' = -1
          /\ pc' = "poll"]_vars

\* An EV_ABS event of code 6 was ignored after a sample had been applied.
C9_Witness ==
    /\ pc = "poll" /\ hist.branch = "ignored" /\ hist.nev >= 1
    /\ event.ret = "success" /\ event.type = 3 /\ event.code = 6

----------------------------------------------------------------------------
(* C10 *)

\* C10: the process exits 0 exactly when nothing failed: 0 for help and for
\* an operation without failure, 1 whenever a failure was reported, a
\* failure to read a line of the mapping file included.
C10_ExitStatus ==
    (pc = "exited" /\ exitStatus \in {0, 1}) =>
        (exitStatus = 0 <=> ~Failed)

----------------------------------------------------------------------------
(* C11 *)

\* The numbers of a line of the mapping file, as fscanf converts them.
LineVals(line) == Fscanf(line, MAP_FILE_LINE_FORMAT, 1).vals

\* C11: in detect, every entry to which at least one sample was applied is
\* present and has min <= max (as unsigned int, the type of the two fields),
\* whatever the values sampled (negative ones and ones above 65535 included),
\* and the line written for such an entry reads min <= max.
C11_MinLeMax ==
    \A i \in TableIdx :
        hist.seen[i] # {} =>
            /\ axes_ranges[i].present
            /\ ~UGt(axes_ranges[i].min, axes_ranges[i].max)
            /\ (hist.branch = "finalize" /\ LineNo(i) <= hist.lines) =>
                   LET vals == LineVals(SplitLines(mapFile)[LineNo(i)])
                   IN  /\ Len(vals) = 3
                       /\ vals[1] = AXIS_A + i
                       /\ ~UGt(vals[2], vals[3])

\* The only sample of axis 0 was -1, and its line was written.
C11_Witness ==
    /\ pc = "exited" /\ hist.branch = "finalize" /\ hist.lines >= 1
    /\ hist.seen[0] = {-1}
    /\ ~UGt(axes_ranges[0].min, axes_ranges[0].max)

----------------------------------------------------------------------------
(* C12 *)

\* Axis a is named by a line of the mapping file that load parsed in full.
NamedByFile(a) == (a - AXIS_A) \in TableIdx /\ hist.good[a - AXIS_A].present

\* C12: after a load, successful or failed, every axis that no line of the
\* mapping file names has the minimum and maximum the device had before.
C12_LoadFrame ==
    (InLoad /\ pc = "exited") =>
        \A a \in DevCodes : ~NamedByFile(a) => devAbs[a] = hist.abs0[a]

----------------------------------------------------------------------------
(* C13 *)

\* C13: when load has succeeded on a well-formed mapping file (lines in the
\* format of the file, each parsed in full) and a device, a second load of
\* the same file on the same device leaves every axis of the device
\* configured as the first load left it.
C13_LoadTwice ==
    (InLoad /\ pc = "exited" /\ hist.again /\ hist.clean) =>
        devAbs = hist.abs0

\* The second load of a file with two lines for axis 0 has ended; the device
\* has the configuration of the last line, as after the first load.
C13_Witness ==
    /\ InLoad /\ pc = "exited" /\ exitStatus = 0 /\ hist.again /\ hist.clean
    /\ mapFile = Line(0, 50, 900) \o Line(0, 300, 500)
    /\ devAbs[0] = [minimum |-> 300, maximum |-> 500]
    /\ hist.abs0 = devAbs

----------------------------------------------------------------------------
(* C14 *)

\* C14: for every mapping file, the read loop of load reaches the end of the
\* input after finitely many iterations: every iteration consumes input or
\* sets the end-of-file indicator.  (An iteration that does neither finds the
\* stream where the one before found it, and so does every later one.)
C14_ReadTerminates ==
    (pc = "load_read" /\ ~scan.eof) =>
        LET r == Fscanf(mapFile, MAP_FILE_LINE_FORMAT, scan.pos)
        IN  r.pos > scan.pos \/ r.eof

----------------------------------------------------------------------------
(* C15 *)

\* C15: every access to the table uses an index in 0 .. AXIS_COUNT-1: in
\* detect, the entry of the event read; in load, the entry stored after each
\* fscanf, for every content of the mapping file.
C15_IndexInTable ==
    /\ hist.branch \in {"sample", "internal error"} =>
          (event.code - AXIS_A) \in TableIdx
    /\ (InLoad /\ scan.iter >= 1) =>
          /\ (scan.axis - AXIS_A) \in TableIdx
          /\ ~scan.oob
          /\ exitStatus # 139

----------------------------------------------------------------------------
(* C16 *)

\* C16: the samples are compared by their signed value: an entry to which
\* samples were applied holds as max the largest of 0 and the samples, as min
\* the smallest of 65535 and the samples; a negative sample lowers min and
\* does not raise max.
C16_SignedArithmetic ==
    \A i \in TableIdx :
        hist.seen[i] # {} =>
            /\ axes_ranges[i].max = SetMax(hist.seen[i] \cup {0})
            /\ axes_ranges[i].min = SetMin(hist.seen[i] \cup {USHRT_MAX})
            /\ (\E v \in hist.seen[i] : v < 0) =>
                  axes_ranges[i].min < 0 /\ axes_ranges[i].max >= 0

----------------------------------------------------------------------------
(* C17 *)

\* C17: a wake that finds the signalfd ready goes to the write loop without
\* a call of libevdev_next_event, also when the device is ready too; while
\* SIGINT is pending at most one event is read, the one detect was woken for
\* when SIGINT arrived; and the wake that follows finds the signalfd ready.
C17_CancelPriority ==
    /\ (revents.sig /\ hist.branch # "none") =>
          hist.branch = "finalize" /\ event = NoEvent
    /\ hist.after <= 1
    /\ hist.after = 1 => hist.sigAt = "wake"
    /\ (pc = "wake" /\ (hist.after = 1 \/ hist.sigAt \in {"detect_signalfd", "poll"}))
          => revents.sig /\ Branch(revents) = "finalize"

\* SIGINT arrived while detect handled an event; that event was applied, the
\* next wake found both the device and the signalfd ready, and the table was
\* written without another event being read.
C17_Witness ==
    /\ pc = "exited" /\ hist.branch = "finalize"
    /\ hist.sigAt = "wake" /\ hist.after = 1 /\ hist.nev = 1
    /\ revents.dev /\ revents.sig
    /\ event = NoEvent

----------------------------------------------------------------------------
(* C18 *)

\* C18: while and after load reads the mapping file, an entry of its table is
\* present exactly when a line parsed in full names it, with the min/max of
\* the last such line; a line that does not parse in full changes no entry.
C18_TableOfParsedLines ==
    (InLoad /\ pc \in {"load_read", "exited"}) =>
        SameRanges(axes_ranges, hist.good)

----------------------------------------------------------------------------
(* C19 *)

\* What detect reports when it fails after the mapping file was opened, for
\* another reason than a failing write: the cancellation set-up, the wait,
\* a wake with nothing to read, the read of an event, an event of an axis
\* that is not present.
AbortReports ==
    {"sigprocmask", "signalfd", "poll", "unknown error while polling",
     "reading next event", "INTERNAL ERROR"}

DetectAborted == InDetect /\ pc = "exited" /\ log \cap AbortReports # {}

\* C19: when detect fails after it opened the mapping file, for one of the
\* reasons above, it returns failure and the mapping file is empty: what it
\* held before is gone, and no line of the table was written.
C19_AbortLeavesEmptyFile ==
    DetectAborted =>
        /\ exitStatus = 1
        /\ mapFile = <<>>
        /\ hist.lines = 0
        /\ ~hist.written.valid

\* detect was started on a mapping file with two lines, applied a sample, and
\* failed reading the next event: the file is empty.
C19_Witness ==
    /\ DetectAborted /\ "reading next event" \in log
    /\ hist.nev >= 1
    /\ hist.old = Line(0, 50, 900) \o Line(5, 7, 9)
    /\ mapFile = <<>>

----------------------------------------------------------------------------
(* C20 *)

\* An EV_ABS event of an axis 0..5 that the device did not declare.
Undeclared(ev) ==
    /\ ev.ret = "success" /\ ev.type = 3
    /\ ev.code \in 0 .. 5 /\ ev.code \notin devAxes

\* C20: the step that reads an EV_ABS event of an axis 0..5 whose entry is
\* not present changes no entry of the table, reports the internal error and
\* makes detect return failure; the entry of that axis stays not present
\* with min/max untouched, and the mapping file holds no line then or later.
C20_InternalError ==
    /\ []((hist.branch # "none" /\ Undeclared(event)) =>
             /\ hist.branch = "internal error"
             /\ pc = "exited" /\ exitStatus = 1
             /\ "INTERNAL ERROR" \in log
             /\ axes_ranges[event.code - AXIS_A] = NoRange
             /\ mapFile = <<>> /\ hist.lines = 0)
    /\ [][(pc = "wake" /\ Undeclared(event')) =>
             /\ axes_ranges' = axes_ranges
             /\ mapFile' = mapFile
             /\ pc' = "exited"]_vars

\* After two samples of axis 0, an event of axis 1, which the device does not
\* have, ended the capture.
C20_Witness ==
    /\ pc = "exited" /\ exitStatus = 1 /\ hist.branch = "internal error"
    /\ devAxes = {0, 5, 6} /\ event.code = 1
    /\ hist.seen[0] = {50, 900}
    /\ axes_ranges[0] = [present |-> TRUE, min |-> 50, max |-> 900]
    /\ axes_ranges[1] = NoRange
    /\ mapFile = <<>>

====
